---- MODULE Spec2Model ----
(***************************************************************************)
(* The per-connection form session tracker of gopherforms (src/user.go):   *)
(* User.SendForm and User.HandleForm, called by concurrent goroutines on    *)
(* one *User.  Every statement that touches shared state is one step.       *)
(*                                                                         *)
(* A form is identified by the number of the SendForm call it was passed    *)
(* to (1, 2, ...), so that two forms are never confused.  The uint32        *)
(* counter is modelled at a reduced width: it counts modulo Modulus.        *)
(***************************************************************************)
EXTENDS Integers, Sequences, FiniteSets, Bags, TLC

\* ---------------------------------------------------------------- bounds
NumThreads == 2
Modulus == 12
MixSends == 2
MaxHandles == 2
MaxResponseId == 1

MaxElems == 2

\* ------------------------------------------------------ program constants
MaxForms == 10

Threads == 1..NumThreads
Ids == 0..(Modulus - 1)
\* Enough SendForm calls to fill the table, evict and wrap the counter.
MaxSends == Modulus + 1
Calls == 1..MaxSends
\* The identifiers the remote peer answers with.
ResponseIds == 0..MaxResponseId
NoForm == 0

\* nullBytes, the bytes of "null\n"
nullBytes == <<"n", "u", "l", "l", "\n">>

\* The response payloads the transport delivers: empty, the cancel line,
\* and a JSON value (the near miss "null" without the newline).
Payloads == {<<>>, nullBytes, <<"n", "u", "l", "l">>}

\* The callers of a session.  MixedLoad: every goroutine calls SendForm and
\* HandleForm as it likes.  PipelineLoad: one application goroutine sends,
\* the others are the transport's receivers.
MixedLoad ==
    [sends |-> MixSends, handles |-> MaxHandles,
     senders |-> Threads, receivers |-> Threads,
     variant |-> "mutex", lossy |-> FALSE]
PipelineLoad ==
    [sends |-> MaxSends, handles |-> 1,
     senders |-> {1}, receivers |-> Threads \ {1},
     variant |-> "mutex", lossy |-> FALSE]

NoPacket == [FormID |-> 0, ResponseData |-> <<>>]

\* A goroutine that is not inside a form's SubmitJSON.
NoFrame == [call |-> "none"]

\* The encoder at rest.
NoEnc == [pc |-> "idle"]

VARIABLES
    mu,            \* u.mu: TRUE while locked
    forms,         \* u.forms: function from the pending identifiers to forms
    localFormId,   \* u.localFormId
    remoteFormId,  \* u.remoteFormId
    pc,            \* position of each goroutine
    f,             \* SendForm: the argument f; HandleForm: the form found
    id,            \* SendForm: the local id
    pk,            \* HandleForm: the argument pk
    ok,            \* HandleForm: the local ok
    err,           \* HandleForm: the local err, TRUE for a non-nil error
    ret,           \* HandleForm: the value returned
    conn,          \* the bag of packets handed to u.conn.WritePacket
    submits,       \* number of SubmitJSON invocations of each form
    assigned,      \* the identifier each SendForm call registered its form under
    fate,          \* what became of each SendForm call's table entry
    nSend,         \* SendForm calls started
    nHandle,       \* HandleForm calls started
    nCS,           \* SendForm calls that have incremented the counter
    seq,           \* the position of each SendForm call among those increments
    lastId,        \* the identifier assigned by the latest SendForm, or -1
    load,          \* the calls the session's users make
    leaked,        \* TRUE once a call has returned with u.mu locked
    frame,         \* the HandleForm a goroutine is inside SubmitJSON of
    enc,           \* the encoder: its input, position and document
    failed         \* the SendForm calls whose WritePacket returned an error

shared == <<mu, forms, localFormId, remoteFormId>>
locals == <<f, id, pk, ok, err, ret>>
ghost == <<conn, submits, assigned, fate, nSend, nHandle, nCS, seq, lastId, load,
           leaked, frame, enc, failed>>
vars == <<mu, forms, localFormId, remoteFormId, pc, f, id, pk, ok, err, ret,
          conn, submits, assigned, fate, nSend, nHandle, nCS, seq, lastId, load,
          leaked, frame, enc, failed>>

\* ------------------------------------------------------------- helpers

\* len(u.forms)
Len_forms(fs) == Cardinality(DOMAIN fs)

\* A capacity test that already trips at MaxForms entries.
OverCapacityAtMax(fs) == Len_forms(fs) >= MaxForms

\* if len(u.forms) > 10
OverCapacity(fs) == Len_forms(fs) > MaxForms

\* A delete that leaves the entry in the table.
DeleteNothing(fs, k) == fs

\* delete(u.forms, k)
Delete(fs, k) == [x \in (DOMAIN fs) \ {k} |-> fs[x]]

\* A store under the identifier before the increment.
StoreStale(fs, k, v) ==
    LET j == (k + Modulus - 1) % Modulus
    IN  [x \in (DOMAIN fs) \cup {j} |-> IF x = j THEN v ELSE fs[x]]

\* u.forms[k] = v
Store(fs, k, v) == [x \in (DOMAIN fs) \cup {k} |-> IF x = k THEN v ELSE fs[x]]

\* _, ok := u.forms[k]
Has(fs, k) == k \in DOMAIN fs

\* An increment that skips an identifier.
AddTwice(v, d) == (v + d + d) % Modulus

\* atomic.Uint32.Add
Add(v, d) == (v + d) % Modulus

\* bytes.Equal
BytesEqual(a, b) == Len(a) = Len(b) /\ \A i \in 1..Len(a) : a[i] = b[i]

\* A cancellation test that forgets the empty payload.
IsCancelNullOnly(data) == BytesEqual(data, nullBytes)

\* bytes.Equal(pk.ResponseData, nullBytes) || len(pk.ResponseData) == 0
IsCancel(data) == BytesEqual(data, nullBytes) \/ Len(data) = 0

\* A counter that starts one too high.
NewUint32PlusOne(v) == (v + 1) % Modulus

\* atomic.NewUint32
NewUint32(v) == v % Modulus

\* ------------------------------------------------------------- encoder
\* A string the code looks inside (a button's image reference) is a sequence
\* of characters; the other strings are opaque.

\* strings.HasPrefix
HasPrefix(str, prefix) ==
    /\ Len(str) >= Len(prefix)
    /\ \A i \in 1..Len(prefix) : str[i] = prefix[i]

\* The form elements of package form, and one value of a type that is none
\* of them.
Elements ==
    { [kind |-> "Toggle", Text |-> "t", Default |-> TRUE],
      [kind |-> "Input", Text |-> "i", Default |-> "d", Placeholder |-> "p"],
      [kind |-> "Label", Text |-> "l"],
      [kind |-> "Slider", Text |-> "s", Min |-> 1, Max |-> 9, StepSize |-> 2,
       Default |-> 5],
      [kind |-> "Dropdown", Text |-> "d", Options |-> <<"a", "b">>,
       DefaultIndex |-> 1],
      [kind |-> "StepSlider", Text |-> "ss", Options |-> <<"x", "y", "z">>,
       DefaultIndex |-> 2],
      [kind |-> "Unknown"] }

\* Image references of menu buttons: none, URLs, paths, and near misses.
Images ==
    { <<>>,
      <<"h", "t", "t", "p", ":", "/", "a">>,
      <<"h", "t", "t", "p", "s", ":", "/", "a">>,
      <<"t", "e", "x", "/", "a">>,
      <<"h", "t", "t", "p">>,
      <<"/", "h", "t", "t", "p", ":">> }

Buttons == [Text : {"b"}, Image : Images]

\* The sequences over S of length at most n.
SeqsUpTo(S, n) == UNION {[1..k -> S] : k \in 0..n}

\* The forms passed to SendForm: the three kinds of package form, and a
\* form.Form implementation that is none of them.
EncodeInputs ==
    {[kind |-> "Custom", Title |-> "T", Elements |-> es] :
        es \in SeqsUpTo(Elements, MaxElems)}
    \cup {[kind |-> "Menu", Title |-> "T", Body |-> "B", Buttons |-> bs] :
        bs \in SeqsUpTo(Buttons, MaxElems)}
    \cup {[kind |-> "Modal", Title |-> "T", Body |-> "B", Buttons |-> bs] :
        bs \in {<<[Text |-> "Yes", Image |-> <<>>], [Text |-> "No", Image |-> <<>>]>>,
                  <<[Text |-> "No", Image |-> <<>>], [Text |-> "Yes", Image |-> <<>>]>>}}
    \cup {[kind |-> "Other", Title |-> "T"]}

\* panic("should never happen")
Panic == [panic |-> TRUE]

\* An encoding of step sliders that names their steps like a dropdown's options.
elemToMapOptions(e) ==
    CASE e.kind = "Toggle" ->
           [type |-> "toggle", text |-> e.Text, default |-> e.Default]
      [] e.kind = "Input" ->
           [type |-> "input", text |-> e.Text, default |-> e.Default,
            placeholder |-> e.Placeholder]
      [] e.kind = "Label" ->
           [type |-> "label", text |-> e.Text]
      [] e.kind = "Slider" ->
           [type |-> "slider", text |-> e.Text, min |-> e.Min, max |-> e.Max,
            step |-> e.StepSize, default |-> e.Default]
      [] e.kind = "Dropdown" ->
           [type |-> "dropdown", text |-> e.Text, default |-> e.DefaultIndex,
            options |-> e.Options]
      [] e.kind = "StepSlider" ->
           [type |-> "step_slider", text |-> e.Text, default |-> e.DefaultIndex,
            options |-> e.Options]
      [] OTHER -> Panic

\* elemToMap: the type switch, and the panic after it
elemToMap(e) ==
    CASE e.kind = "Toggle" ->
           [type |-> "toggle", text |-> e.Text, default |-> e.Default]
      [] e.kind = "Input" ->
           [type |-> "input", text |-> e.Text, default |-> e.Default,
            placeholder |-> e.Placeholder]
      [] e.kind = "Label" ->
           [type |-> "label", text |-> e.Text]
      [] e.kind = "Slider" ->
           [type |-> "slider", text |-> e.Text, min |-> e.Min, max |-> e.Max,
            step |-> e.StepSize, default |-> e.Default]
      [] e.kind = "Dropdown" ->
           [type |-> "dropdown", text |-> e.Text, default |-> e.DefaultIndex,
            options |-> e.Options]
      [] e.kind = "StepSlider" ->
           [type |-> "step_slider", text |-> e.Text, default |-> e.DefaultIndex,
            steps |-> e.Options]
      [] OTHER -> Panic

\* A button type that knows http: only.
ButtonTypeHttpOnly(image) ==
    IF HasPrefix(image, <<"h", "t", "t", "p", ":">>) THEN "url" ELSE "path"

\* buttonType := "path"; if strings.HasPrefix(button.Image, "http:") ||
\* strings.HasPrefix(button.Image, "https:") { buttonType = "url" }
ButtonType(image) ==
    IF \/ HasPrefix(image, <<"h", "t", "t", "p", ":">>)
       \/ HasPrefix(image, <<"h", "t", "t", "p", "s", ":">>)
    THEN "url" ELSE "path"

\* v := map[string]interface{}{"text": button.Text}
\* if button.Image != "" { v["image"] = map[string]interface{}{...} }
buttonToMap(button) ==
    IF button.Image # <<>>
    THEN [text |-> button.Text,
          image |-> [type |-> ButtonType(button.Image), data |-> button.Image]]
    ELSE [text |-> button.Text]

\* The switch of SendForm over the kind of form: the document m, or a panic
\* when elemToMap panics.  A form of no known kind leaves m empty.
EncodeForm(frm) ==
    CASE frm.kind = "Custom" ->
           LET n == [i \in 1..Len(frm.Elements) |-> elemToMap(frm.Elements[i])]
           IN  IF \E i \in 1..Len(n) : n[i] = Panic
               THEN Panic
               ELSE [panic |-> FALSE,
                     m |-> [type |-> "custom_form", title |-> frm.Title,
                            content |-> n]]
      [] frm.kind = "Menu" ->
           [panic |-> FALSE,
            m |-> [type |-> "form", title |-> frm.Title, content |-> frm.Body,
                   buttons |-> [i \in 1..Len(frm.Buttons) |->
                                   buttonToMap(frm.Buttons[i])]]]
      [] frm.kind = "Modal" ->
           [panic |-> FALSE,
            m |-> [type |-> "modal", title |-> frm.Title, content |-> frm.Body,
                   button1 |-> frm.Buttons[1].Text,
                   button2 |-> frm.Buttons[2].Text]]
      [] OTHER -> [panic |-> FALSE, m |-> [x \in {} |-> ""]]

\* ----------------------------------------------------------- transport
\* conn.WritePacket returns an error or nil; on a transport that loses
\* nothing it returns nil.  TRUE stands for an error.
WriteErrors == IF load.lossy THEN BOOLEAN ELSE {FALSE}

\* The calls whose write has failed, after call c's write returned e.
Failed(fl, c, e) == IF e THEN fl \cup {c} ELSE fl

\* NewUser
NewUser ==
    /\ mu = FALSE
    /\ forms = [x \in {} |-> NoForm]
    /\ localFormId = NewUint32(0)
    /\ remoteFormId = NewUint32(0)
    /\ pc = [t \in Threads |-> "idle"]
    /\ f = [t \in Threads |-> NoForm]
    /\ id = [t \in Threads |-> 0]
    /\ pk = [t \in Threads |-> NoPacket]
    /\ ok = [t \in Threads |-> FALSE]
    /\ err = [t \in Threads |-> FALSE]
    /\ ret = [t \in Threads |-> FALSE]
    /\ conn = EmptyBag
    /\ submits = [c \in Calls |-> 0]
    /\ assigned = [c \in Calls |-> -1]
    /\ fate = [c \in Calls |-> "none"]
    /\ nSend = 0
    /\ nHandle = 0
    /\ nCS = 0
    /\ seq = [c \in Calls |-> 0]
    /\ lastId = -1
    /\ leaked = FALSE
    /\ failed = {}
    /\ frame = [t \in Threads |-> NoFrame]
    /\ enc = NoEnc

Init == NewUser /\ load = MixedLoad

InitPipeline == NewUser /\ load = PipelineLoad

\* A session on which only the encoder of SendForm is followed.
EncodeLoad ==
    [sends |-> 0, handles |-> 0, senders |-> {}, receivers |-> {},
     variant |-> "mutex", lossy |-> FALSE]

InitEncode == NewUser /\ load = EncodeLoad

\* SendForm(f) is called with some form.
EncodeCall ==
    /\ enc.pc = "idle"
    /\ \E frm \in EncodeInputs : enc' = [pc |-> "called", f |-> frm]
    /\ UNCHANGED <<shared, pc, locals, conn, submits, assigned, fate, nSend,
                   nHandle, nCS, seq, lastId, load, leaked, frame, failed>>

\* Lines 79 to 109 of SendForm: build the document m of the form.
Encode ==
    /\ enc.pc = "called"
    /\ LET r == EncodeForm(enc.f)
       IN  enc' = IF r.panic
                  THEN [pc |-> "panic", f |-> enc.f]
                  ELSE [pc |-> "encoded", f |-> enc.f, m |-> r.m]
    /\ UNCHANGED <<shared, pc, locals, conn, submits, assigned, fate, nSend,
                   nHandle, nCS, seq, lastId, load, leaked, frame, failed>>

\* b, _ := json.Marshal(m): the encoder is done with the form.
EncodeMarshal ==
    /\ enc.pc = "encoded"
    /\ enc' = [enc EXCEPT !.pc = "done"]
    /\ UNCHANGED <<shared, pc, locals, conn, submits, assigned, fate, nSend,
                   nHandle, nCS, seq, lastId, load, leaked, frame, failed>>

NextEncode == EncodeCall \/ Encode \/ EncodeMarshal

SpecEncode == InitEncode /\ [][NextEncode]_vars

\* ------------------------------------------------------------ SendForm

\* A goroutine calls u.SendForm(f); the form is encoded before the lock.
SendForm(t) ==
    /\ pc[t] = "idle"
    /\ frame[t] = NoFrame
    /\ load.variant = "mutex"
    /\ t \in load.senders
    /\ nSend < load.sends
    /\ nSend' = nSend + 1
    /\ f' = [f EXCEPT ![t] = nSend + 1]
    /\ pc' = [pc EXCEPT ![t] = "s_lock"]
    /\ UNCHANGED <<shared, id, pk, ok, err, ret, conn, submits, assigned, fate,
                   nHandle, nCS, seq, lastId, load,
                   leaked, frame, enc, failed>>

\* A SendForm that enters without waiting for the mutex.
SendLockNoWait(t) ==
    /\ pc[t] = "s_lock"
    /\ mu' = TRUE
    /\ pc' = [pc EXCEPT ![t] = "s_evict"]
    /\ UNCHANGED <<forms, localFormId, remoteFormId, locals, ghost>>

\* u.mu.Lock()
SendLock(t) ==
    /\ pc[t] = "s_lock"
    /\ mu = FALSE
    /\ mu' = TRUE
    /\ pc' = [pc EXCEPT ![t] = "s_evict"]
    /\ UNCHANGED <<forms, localFormId, remoteFormId, locals, ghost>>

\* if len(u.forms) > 10 { for k := range u.forms { delete(u.forms, k); break } }
SendEvict(t) ==
    /\ pc[t] = "s_evict"
    /\ IF OverCapacity(forms)
       THEN \E k \in DOMAIN forms :
               /\ forms' = Delete(forms, k)
               /\ fate' = [fate EXCEPT ![forms[k]] = "evicted"]
       ELSE UNCHANGED <<forms, fate>>
    /\ pc' = [pc EXCEPT ![t] = "s_add"]
    /\ UNCHANGED <<mu, localFormId, remoteFormId, locals, conn, submits,
                   assigned, nSend, nHandle, nCS, seq, lastId, load,
                   leaked, frame, enc, failed>>

\* u.localFormId.Add(1)
SendAdd(t) ==
    /\ pc[t] = "s_add"
    /\ localFormId' = Add(localFormId, 1)
    /\ nCS' = nCS + 1
    /\ pc' = [pc EXCEPT ![t] = "s_load"]
    /\ UNCHANGED <<mu, forms, remoteFormId, locals, conn, submits, assigned,
                   fate, nSend, nHandle, seq, lastId, load,
                   leaked, frame, enc, failed>>

\* id := u.localFormId.Load()
SendLoad(t) ==
    /\ pc[t] = "s_load"
    /\ id' = [id EXCEPT ![t] = localFormId]
    /\ pc' = [pc EXCEPT ![t] = "s_store"]
    /\ UNCHANGED <<shared, f, pk, ok, err, ret, ghost>>

\* u.forms[id] = f
SendStore(t) ==
    /\ pc[t] = "s_store"
    /\ forms' = Store(forms, id[t], f[t])
    /\ assigned' = [assigned EXCEPT ![f[t]] = id[t]]
    /\ fate' = [c \in Calls |->
                  IF c = f[t] THEN "pending"
                  ELSE IF Has(forms, id[t]) /\ forms[id[t]] = c THEN "overwritten"
                  ELSE fate[c]]
    /\ seq' = [seq EXCEPT ![f[t]] = nCS]
    /\ lastId' = id[t]
    /\ pc' = [pc EXCEPT ![t] = "s_unlock"]
    /\ UNCHANGED <<mu, localFormId, remoteFormId, locals, conn, submits,
                   nSend, nHandle, nCS, load,
                   leaked, frame, enc, failed>>

\* u.mu.Unlock()
SendUnlock(t) ==
    /\ pc[t] = "s_unlock"
    /\ mu' = FALSE
    /\ pc' = [pc EXCEPT ![t] = "s_write"]
    /\ UNCHANGED <<forms, localFormId, remoteFormId, locals, ghost>>

\* A write that reads the counter again for the FormID of the packet.
SendWriteReloads(t) ==
    /\ pc[t] = "s_write"
    /\ conn' = conn (+) SetToBag({[FormID |-> localFormId, FormData |-> f[t]]})
    /\ \E e \in WriteErrors : failed' = Failed(failed, f[t], e)
    /\ pc' = [pc EXCEPT ![t] = "idle"]
    /\ f' = [f EXCEPT ![t] = NoForm]
    /\ id' = [id EXCEPT ![t] = 0]
    /\ UNCHANGED <<shared, pk, ok, err, ret, submits, assigned, fate, nSend,
                   nHandle, nCS, seq, lastId, load, leaked, frame, enc>>

\* A write that takes the id and the form back when the transport fails.
SendWriteRollsBack(t) ==
    /\ pc[t] = "s_write"
    /\ conn' = conn (+) SetToBag({[FormID |-> id[t], FormData |-> f[t]]})
    /\ \E e \in WriteErrors :
          /\ failed' = Failed(failed, f[t], e)
          /\ forms' = IF e THEN Delete(forms, id[t]) ELSE forms
          /\ localFormId' = IF e THEN Add(localFormId, Modulus - 1)
                             ELSE localFormId
    /\ pc' = [pc EXCEPT ![t] = "idle"]
    /\ f' = [f EXCEPT ![t] = NoForm]
    /\ id' = [id EXCEPT ![t] = 0]
    /\ UNCHANGED <<mu, remoteFormId, pk, ok, err, ret, submits, assigned, fate,
                   nSend, nHandle, nCS, seq, lastId, load, leaked, frame, enc>>

\* u.conn.WritePacket(&packet.ModalFormRequest{FormID: id, FormData: b}); return
SendWrite(t) ==
    /\ pc[t] = "s_write"
    /\ conn' = conn (+) SetToBag({[FormID |-> id[t], FormData |-> f[t]]})
    /\ \E e \in WriteErrors : failed' = Failed(failed, f[t], e)
    /\ pc' = [pc EXCEPT ![t] = "idle"]
    /\ f' = [f EXCEPT ![t] = NoForm]
    /\ id' = [id EXCEPT ![t] = 0]
    /\ UNCHANGED <<shared, pk, ok, err, ret, submits, assigned, fate, nSend,
                   nHandle, nCS, seq, lastId, load,
                   leaked, frame, enc>>

\* ---------------------------------------------------------- HandleForm

\* The transport delivers a ModalFormResponse and a goroutine calls
\* u.HandleForm(pk).
HandleForm(t) ==
    /\ pc[t] = "idle"
    /\ frame[t] = NoFrame
    /\ t \in load.receivers
    /\ nHandle < load.handles
    /\ nHandle' = nHandle + 1
    /\ \E fid \in ResponseIds, data \in Payloads :
          pk' = [pk EXCEPT ![t] = [FormID |-> fid, ResponseData |-> data]]
    /\ pc' = [pc EXCEPT ![t] = "h_lock"]
    /\ UNCHANGED <<shared, f, id, ok, err, ret, conn, submits, assigned, fate,
                   nSend, nCS, seq, lastId, load,
                   leaked, frame, enc, failed>>

\* A HandleForm that looks the form up without waiting for the mutex.
HandleLockNoWait(t) ==
    /\ pc[t] = "h_lock"
    /\ mu' = TRUE
    /\ pc' = [pc EXCEPT ![t] = "h_lookup"]
    /\ UNCHANGED <<forms, localFormId, remoteFormId, locals, ghost>>

\* u.mu.Lock()
HandleLock(t) ==
    /\ pc[t] = "h_lock"
    /\ mu = FALSE
    /\ mu' = TRUE
    /\ pc' = [pc EXCEPT ![t] = "h_lookup"]
    /\ UNCHANGED <<forms, localFormId, remoteFormId, locals, ghost>>

\* A HandleForm that reports an unknown identifier as handled.
MissReturnsTrue(t) ==
    /\ ret' = [ret EXCEPT ![t] = TRUE]
    /\ pc' = [pc EXCEPT ![t] = "done"]
    /\ leaked' = TRUE
    /\ UNCHANGED <<shared, f, ok>>

\* return false, the last statement of HandleForm
Miss(t) ==
    /\ ret' = [ret EXCEPT ![t] = FALSE]
    /\ pc' = [pc EXCEPT ![t] = "done"]
    /\ leaked' = TRUE
    /\ UNCHANGED <<shared, f, ok>>

\* if f, ok := u.forms[pk.FormID]; ok { ... }; return false
\* The path that does not find the identifier returns with u.mu locked.
HandleLookup(t) ==
    /\ pc[t] = "h_lookup"
    /\ IF Has(forms, pk[t].FormID)
       THEN /\ f' = [f EXCEPT ![t] = forms[pk[t].FormID]]
            /\ ok' = [ok EXCEPT ![t] = TRUE]
            /\ pc' = [pc EXCEPT ![t] = "h_delete"]
            /\ UNCHANGED <<shared, ret>>
            /\ UNCHANGED leaked
       ELSE Miss(t)
    /\ UNCHANGED <<id, pk, err, conn, submits, assigned, fate, nSend, nHandle,
                   nCS, seq, lastId, load, frame, enc, failed>>

\* delete(u.forms, pk.FormID)
HandleDelete(t) ==
    /\ pc[t] = "h_delete"
    /\ forms' = Delete(forms, pk[t].FormID)
    /\ fate' = [fate EXCEPT ![f[t]] = "consumed"]
    /\ pc' = [pc EXCEPT ![t] = "h_unlock"]
    /\ UNCHANGED <<mu, localFormId, remoteFormId, locals, conn, submits,
                   assigned, nSend, nHandle, nCS, seq, lastId, load,
                   leaked, frame, enc, failed>>

\* A HandleForm that keeps the mutex while it goes on to the submit.
HandleUnlockKeeps(t) ==
    /\ pc[t] = "h_unlock"
    /\ mu' = mu
    /\ pc' = [pc EXCEPT ![t] = "h_check"]
    /\ UNCHANGED <<forms, localFormId, remoteFormId, locals, ghost>>

\* u.mu.Unlock()
HandleUnlock(t) ==
    /\ pc[t] = "h_unlock"
    /\ mu' = FALSE
    /\ pc' = [pc EXCEPT ![t] = "h_check"]
    /\ UNCHANGED <<forms, localFormId, remoteFormId, locals, ghost>>

\* if bytes.Equal(pk.ResponseData, nullBytes) || len(pk.ResponseData) == 0
\*     { return true }
\* if !ok { return false }
HandleCheck(t) ==
    /\ pc[t] = "h_check"
    /\ IF IsCancel(pk[t].ResponseData)
       THEN /\ ret' = [ret EXCEPT ![t] = TRUE]
            /\ pc' = [pc EXCEPT ![t] = "done"]
       ELSE IF ~ok[t]
       THEN /\ ret' = [ret EXCEPT ![t] = FALSE]
            /\ pc' = [pc EXCEPT ![t] = "done"]
       ELSE /\ pc' = [pc EXCEPT ![t] = "h_submit"]
            /\ UNCHANGED ret
    /\ UNCHANGED <<shared, f, id, pk, ok, err, ghost>>

\* A HandleForm that reports a failed submit as handled.
SubmitReturnIgnoresErr(e) == TRUE

\* if err != nil { return false }; return true
SubmitReturn(e) == IF e THEN FALSE ELSE TRUE

\* if err := f.SubmitJSON(pk.ResponseData, u); err != nil { return false }
\* return true
\* SubmitJSON belongs to the form: whether it accepts the payload is its own
\* decision.
HandleSubmit(t) ==
    /\ pc[t] = "h_submit"
    /\ submits' = [submits EXCEPT ![f[t]] = @ + 1]
    /\ \E e \in BOOLEAN :
          /\ err' = [err EXCEPT ![t] = e]
          /\ ret' = [ret EXCEPT ![t] = SubmitReturn(e)]
    /\ pc' = [pc EXCEPT ![t] = "done"]
    /\ UNCHANGED <<shared, f, id, pk, ok, conn, assigned, fate, nSend,
                   nHandle, nCS, seq, lastId, load,
                   leaked, frame, enc, failed>>

\* HandleForm has returned ret[t] to its caller.
HandleReturn(t) ==
    /\ pc[t] = "done"
    /\ pc' = [pc EXCEPT ![t] = "idle"]
    /\ f' = [f EXCEPT ![t] = NoForm]
    /\ pk' = [pk EXCEPT ![t] = NoPacket]
    /\ ok' = [ok EXCEPT ![t] = FALSE]
    /\ err' = [err EXCEPT ![t] = FALSE]
    /\ ret' = [ret EXCEPT ![t] = FALSE]
    /\ UNCHANGED <<shared, id, ghost>>

Next ==
    \E t \in Threads :
        \/ SendForm(t)
        \/ SendLock(t)
        \/ SendEvict(t)
        \/ SendAdd(t)
        \/ SendLoad(t)
        \/ SendStore(t)
        \/ SendUnlock(t)
        \/ SendWrite(t)
        \/ HandleForm(t)
        \/ HandleLock(t)
        \/ HandleLookup(t)
        \/ HandleDelete(t)
        \/ HandleUnlock(t)
        \/ HandleCheck(t)
        \/ HandleSubmit(t)
        \/ HandleReturn(t)

Spec == Init /\ [][Next]_vars

SpecPipeline == InitPipeline /\ [][Next]_vars

\* The steps of goroutine t inside a call it has started.
Step(t) ==
    \/ SendLock(t) \/ SendEvict(t) \/ SendAdd(t) \/ SendLoad(t)
    \/ SendStore(t) \/ SendUnlock(t) \/ SendWrite(t)
    \/ HandleLock(t) \/ HandleLookup(t) \/ HandleDelete(t)
    \/ HandleUnlock(t) \/ HandleCheck(t) \/ HandleSubmit(t)
    \/ HandleReturn(t)

\* ------------------------------------------------- a panic in the encoder
\* A SendForm that locks before it encodes, and panics with the mutex held.
SendFormPanicsLocked(t) ==
    /\ pc[t] = "idle"
    /\ frame[t] = NoFrame
    /\ load.variant = "mutex"
    /\ t \in load.senders
    /\ \E frm \in EncodeInputs : EncodeForm(frm).panic
    /\ mu = FALSE
    /\ mu' = TRUE
    /\ pc' = [pc EXCEPT ![t] = "panic"]
    /\ UNCHANGED <<forms, localFormId, remoteFormId, locals, ghost>>

\* A goroutine calls u.SendForm(f) with a form whose encoding panics: the
\* panic leaves SendForm from inside elemToMap, before u.mu.Lock().
SendFormPanics(t) ==
    /\ pc[t] = "idle"
    /\ frame[t] = NoFrame
    /\ load.variant = "mutex"
    /\ t \in load.senders
    /\ \E frm \in EncodeInputs : EncodeForm(frm).panic
    /\ pc' = [pc EXCEPT ![t] = "panic"]
    /\ UNCHANGED <<shared, locals, ghost>>

\* The caller recovers from the panic and goes on.
Recover(t) ==
    /\ pc[t] = "panic"
    /\ pc' = [pc EXCEPT ![t] = "idle"]
    /\ UNCHANGED <<shared, locals, ghost>>

\* Sends on every thread, some of them with a form that cannot be encoded,
\* and a response.
PanicLoad ==
    [sends |-> MixSends, handles |-> 1, senders |-> Threads,
     receivers |-> {1}, variant |-> "mutex", lossy |-> FALSE]

InitPanic == NewUser /\ load = PanicLoad

NextPanic ==
    \/ Next
    \/ \E t \in Threads :
          \/ SendFormPanics(t)
          \/ Recover(t)

SpecPanic == InitPanic /\ [][NextPanic]_vars

\* ------------------------------------------- SendForm without the table
\* The SendForm of part_000: no mutex, no table, the error of the write
\* returned.  assigned[c] is the value call c's own Add produced.

\* A goroutine calls u.SendForm(f); the form is encoded first.
LfSendForm(t) ==
    /\ pc[t] = "idle"
    /\ frame[t] = NoFrame
    /\ load.variant = "lockfree"
    /\ t \in load.senders
    /\ nSend < load.sends
    /\ nSend' = nSend + 1
    /\ f' = [f EXCEPT ![t] = nSend + 1]
    /\ pc' = [pc EXCEPT ![t] = "lf_add"]
    /\ UNCHANGED <<shared, id, pk, ok, err, ret, conn, submits, assigned, fate,
                   nHandle, nCS, seq, lastId, load, leaked, frame, enc, failed>>

\* u.localFormId.Add(1)
LfAdd(t) ==
    /\ pc[t] = "lf_add"
    /\ localFormId' = Add(localFormId, 1)
    /\ assigned' = [assigned EXCEPT ![f[t]] = Add(localFormId, 1)]
    /\ nCS' = nCS + 1
    /\ seq' = [seq EXCEPT ![f[t]] = nCS + 1]
    /\ pc' = [pc EXCEPT ![t] = "lf_load"]
    /\ UNCHANGED <<mu, forms, remoteFormId, locals, conn, submits, fate, nSend,
                   nHandle, lastId, load, leaked, frame, enc, failed>>

\* FormID: u.localFormId.Load()
LfLoad(t) ==
    /\ pc[t] = "lf_load"
    /\ id' = [id EXCEPT ![t] = localFormId]
    /\ pc' = [pc EXCEPT ![t] = "lf_write"]
    /\ UNCHANGED <<shared, f, pk, ok, err, ret, ghost>>

\* err := u.conn.WritePacket(&packet.ModalFormRequest{FormID: ..., FormData: b})
LfWrite(t) ==
    /\ pc[t] = "lf_write"
    /\ conn' = conn (+) SetToBag({[FormID |-> id[t], FormData |-> f[t]]})
    /\ \E e \in WriteErrors :
          /\ err' = [err EXCEPT ![t] = e]
          /\ failed' = Failed(failed, f[t], e)
    /\ pc' = [pc EXCEPT ![t] = "lf_return"]
    /\ UNCHANGED <<shared, f, id, pk, ok, ret, submits, assigned, fate, nSend,
                   nHandle, nCS, seq, lastId, load, leaked, frame, enc>>

\* A SendForm that tells its caller that nothing went wrong.
SendReturnNil(e) == FALSE

\* if err != nil { return err }; return nil
SendReturn(e) == IF e # FALSE THEN e ELSE FALSE

\* SendForm returns; ret[t] is the error its caller gets.
LfReturn(t) ==
    /\ pc[t] = "lf_return"
    /\ ret' = [ret EXCEPT ![t] = SendReturn(err[t])]
    /\ pc' = [pc EXCEPT ![t] = "lf_done"]
    /\ UNCHANGED <<shared, f, id, pk, ok, err, ghost>>

\* The caller has the result and goes on.
LfDone(t) ==
    /\ pc[t] = "lf_done"
    /\ pc' = [pc EXCEPT ![t] = "idle"]
    /\ f' = [f EXCEPT ![t] = NoForm]
    /\ id' = [id EXCEPT ![t] = 0]
    /\ err' = [err EXCEPT ![t] = FALSE]
    /\ ret' = [ret EXCEPT ![t] = FALSE]
    /\ UNCHANGED <<shared, pk, ok, ghost>>

\* Sends on every thread of a session of part_000, over a transport that
\* loses nothing.
LockFreeLoad ==
    [sends |-> MixSends + 1, handles |-> 0, senders |-> Threads,
     receivers |-> {}, variant |-> "lockfree", lossy |-> FALSE]

InitLockFree == NewUser /\ load = LockFreeLoad

NextLockFree ==
    \E t \in Threads :
        \/ LfSendForm(t)
        \/ LfAdd(t)
        \/ LfLoad(t)
        \/ LfWrite(t)
        \/ LfReturn(t)
        \/ LfDone(t)

SpecLockFree == InitLockFree /\ [][NextLockFree]_vars

\* ------------------------------------------------- a transport that fails
\* Either SendForm over a transport whose WritePacket may return an error:
\* sends and a response on a session of user.go, or sends on a session of
\* part_000.
LossyLoad ==
    [sends |-> MixSends, handles |-> 1, senders |-> Threads,
     receivers |-> Threads, variant |-> "mutex", lossy |-> TRUE]

LossyLockFreeLoad ==
    [sends |-> MixSends + 1, handles |-> 0, senders |-> Threads,
     receivers |-> {}, variant |-> "lockfree", lossy |-> TRUE]

InitLossy == NewUser /\ load \in {LossyLoad, LossyLockFreeLoad}

NextLossy == Next \/ NextLockFree

SpecLossy == InitLossy /\ [][NextLossy]_vars

\* ------------------------------------------------- calls made by a submit
\* f.SubmitJSON(pk.ResponseData, u) runs the form's handler with the session
\* as submitter: the handler may call u.SendForm or u.HandleForm itself, on
\* the goroutine of the HandleForm that submits.  frame[t] keeps the locals
\* of the outer HandleForm while the inner call runs.

\* The handler calls u.SendForm(f).
SubmitCallsSend(t) ==
    /\ pc[t] = "h_submit"
    /\ frame[t] = NoFrame
    /\ nSend < load.sends
    /\ frame' = [frame EXCEPT ![t] =
                    [call |-> "SendForm", f |-> f[t], pk |-> pk[t], ok |-> ok[t]]]
    /\ nSend' = nSend + 1
    /\ f' = [f EXCEPT ![t] = nSend + 1]
    /\ pc' = [pc EXCEPT ![t] = "s_lock"]
    /\ UNCHANGED <<shared, id, pk, ok, err, ret, conn, submits, assigned, fate,
                   nHandle, nCS, seq, lastId, load, leaked, enc, failed>>

\* The handler calls u.HandleForm(pk).
SubmitCallsHandle(t) ==
    /\ pc[t] = "h_submit"
    /\ frame[t] = NoFrame
    /\ nHandle < load.handles
    /\ frame' = [frame EXCEPT ![t] =
                    [call |-> "HandleForm", f |-> f[t], pk |-> pk[t], ok |-> ok[t]]]
    /\ nHandle' = nHandle + 1
    /\ \E fid \in ResponseIds, data \in Payloads :
          pk' = [pk EXCEPT ![t] = [FormID |-> fid, ResponseData |-> data]]
    /\ f' = [f EXCEPT ![t] = NoForm]
    /\ ok' = [ok EXCEPT ![t] = FALSE]
    /\ pc' = [pc EXCEPT ![t] = "h_lock"]
    /\ UNCHANGED <<shared, id, err, ret, conn, submits, assigned, fate,
                   nSend, nCS, seq, lastId, load, leaked, enc, failed>>

\* The inner call has returned: the handler goes on inside SubmitJSON.
SubmitResumes(t) ==
    /\ pc[t] = "idle"
    /\ frame[t] # NoFrame
    /\ f' = [f EXCEPT ![t] = frame[t].f]
    /\ pk' = [pk EXCEPT ![t] = frame[t].pk]
    /\ ok' = [ok EXCEPT ![t] = frame[t].ok]
    /\ frame' = [frame EXCEPT ![t] = NoFrame]
    /\ pc' = [pc EXCEPT ![t] = "h_submit"]
    /\ UNCHANGED <<shared, id, err, ret, conn, submits, assigned, fate,
                   nSend, nHandle, nCS, seq, lastId, load, leaked, enc, failed>>

\* Sends and responses on every thread, enough of them for a handler to send
\* while another thread sends.
ReentrantLoad ==
    [sends |-> MixSends + 1, handles |-> MaxHandles, senders |-> Threads,
     receivers |-> {1}, variant |-> "mutex", lossy |-> FALSE]

InitReentrant == NewUser /\ load = ReentrantLoad

NextReentrant ==
    \/ Next
    \/ \E t \in Threads :
          \/ SubmitCallsSend(t)
          \/ SubmitCallsHandle(t)
          \/ SubmitResumes(t)

SpecReentrant == InitReentrant /\ [][NextReentrant]_vars

\* The Go scheduler runs every runnable goroutine, and sync.Mutex hands the
\* lock to a waiter that has starved (starvation mode): a goroutine that can
\* take a step again and again takes it.
FairSpec == Init /\ [][Next]_vars /\ \A t \in Threads : SF_vars(Step(t))

\* ------------------------------------------------------------ the claims

Idle == \A t \in Threads : pc[t] = "idle"

\* The positions between u.mu.Lock() and u.mu.Unlock().
InSend == {"s_evict", "s_add", "s_load", "s_store", "s_unlock"}
InHandle == {"h_lookup", "h_delete", "h_unlock"}

Min(a, b) == IF a < b THEN a ELSE b

\* C1: on a fresh session, after N SendForm calls and no HandleForm call the
\* pending table holds exactly min(N, 10) entries.
C1_PendingIsMinOfNAnd10 ==
    (Idle /\ nHandle = 0) => Len_forms(forms) = Min(nSend, 10)

\* C2: under fair scheduling every call that starts eventually returns, also
\* a call that starts after a HandleForm whose identifier was not pending.
C2_EveryCallReturns ==
    \A t \in Threads : (pc[t] # "idle") ~> (pc[t] = "idle")

\* A goroutine that has found the entry of its packet and removed it.
Found(t) == pc[t] \in {"h_check", "h_submit", "done"} /\ ok[t]

\* The form c is no longer in the pending table.
Removed(c) == \A k \in DOMAIN forms : forms[k] # c

\* C3: HandleForm with an identifier that is not a key of the pending table
\* returns false and leaves the pending table, Local(), the submit
\* invocations and the packets written as they were.
C3_UnknownIdHasNoEffect ==
    [][\A t \in Threads :
          /\ (pc[t] \in {"idle", "h_lock", "h_lookup"}
                 /\ pc'[t] \in {"h_lock", "h_lookup", "h_delete", "done"}
                 /\ pc'[t] # pc[t])
               => /\ forms' = forms
                  /\ localFormId' = localFormId
                  /\ submits' = submits
                  /\ conn' = conn
          /\ (pc[t] = "h_lookup" /\ pk[t].FormID \notin DOMAIN forms
                 /\ pc'[t] # pc[t])
               => pc'[t] = "done" /\ ret'[t] = FALSE]_vars

\* C3 witness: a HandleForm has returned on the path that did not find the
\* identifier, while another form was pending.
C3_Witness ==
    \E t \in Threads :
        pc[t] = "done" /\ ~ok[t] /\ ~ret[t] /\ DOMAIN forms # {}

\* C4: the HandleForm that finds a pending form, with a payload that is not a
\* cancellation and that SubmitJSON accepts, returns true, has removed the
\* entry and has invoked SubmitJSON once; a HandleForm that does not find the
\* identifier returns false without a submit, and no form is submitted twice.
C4_SubmitExactlyOnce ==
    /\ \A c \in Calls :
          /\ submits[c] <= 1
          /\ submits[c] = 1 => fate[c] = "consumed"
          /\ fate[c] = "consumed" => Removed(c)
    /\ \A t \in Threads :
          /\ (pc[t] = "done" /\ ok[t] /\ Len(pk[t].ResponseData) # 0
                 /\ pk[t].ResponseData # nullBytes /\ ~err[t])
               => ret[t] /\ submits[f[t]] = 1 /\ Removed(f[t])
          /\ (pc[t] = "done" /\ ~ok[t]) => ~ret[t]

\* C4 witness: a form was submitted and accepted, and a second HandleForm with
\* the same identifier has returned false.
C4_Witness ==
    \E t \in Threads, c \in Calls :
        /\ submits[c] = 1 /\ fate[c] = "consumed"
        /\ pc[t] = "done" /\ ~ok[t] /\ ~ret[t] /\ pk[t].FormID = assigned[c]
        /\ nHandle = 2

\* C5: concurrent SendForm calls are assigned different identifiers, each
\* registers its own form under its own identifier and none is lost or
\* overwritten, and the critical sections of SendForm and HandleForm never
\* overlap.
C5_ConcurrentSendsAreSerialized ==
    /\ Cardinality({t \in Threads : pc[t] \in InSend \cup InHandle}) <= 1
    /\ (\E t \in Threads : pc[t] \in InSend \cup InHandle) => mu
    /\ \A c1, c2 \in Calls :
          (c1 # c2 /\ assigned[c1] # -1 /\ assigned[c2] # -1)
             => assigned[c1] # assigned[c2]
    /\ \A c \in Calls :
          /\ fate[c] # "overwritten"
          /\ fate[c] = "pending"
               => assigned[c] \in DOMAIN forms /\ forms[assigned[c]] = c
    /\ \A t \in Threads :
          pc[t] \in {"s_unlock", "s_write"}
             => assigned[f[t]] = id[t] /\ id[t] = seq[f[t]] % Modulus
    /\ (Idle /\ nHandle = 0) => Len_forms(forms) = nSend

\* C5 witness: two SendForm calls were in flight together, and the one that
\* started later went through its critical section first.
C5_Witness ==
    \E t1, t2 \in Threads :
        /\ pc[t1] = "s_write" /\ pc[t2] = "s_write"
        /\ f[t1] < f[t2] /\ seq[f[t2]] < seq[f[t1]]

\* C6 as claimed: every identifier is the successor of the one before, and
\* SendForm never assigns an identifier that is a key of the pending table.
C6_NeverAssignsPendingId ==
    \A t \in Threads :
        pc[t] = "s_store"
           => /\ lastId # -1 => id[t] = (lastId + 1) % Modulus
              /\ id[t] \notin DOMAIN forms

\* C6 as amended: every identifier is the successor of the one before modulo
\* the width of the counter, and SendForm assigns an identifier that is a key
\* of the pending table only when the counter has wrapped all the way round
\* since that key was assigned.
C6_AssignsPendingIdOnlyAfterWrap ==
    \A t \in Threads :
        pc[t] = "s_store"
           => /\ lastId # -1 => id[t] = (lastId + 1) % Modulus
              /\ id[t] \in DOMAIN forms
                   => /\ nCS - seq[forms[id[t]]] >= Modulus
                      /\ (nCS - seq[forms[id[t]]]) % Modulus = 0

\* C6 witness: after the counter has wrapped, SendForm is about to store a
\* form under an identifier whose earlier form is still pending.
C6_Witness ==
    \E t \in Threads :
        pc[t] = "s_store" /\ id[t] \in DOMAIN forms /\ nCS > Modulus

\* C7: HandleForm for a pending identifier with an empty payload or the
\* payload "null\n" returns true, has removed the entry and has not invoked
\* SubmitJSON; a later HandleForm with that identifier does not find it and
\* returns false.
C7_CancelRemovesWithoutSubmit ==
    \A t \in Threads :
        LET data == pk[t].ResponseData
            cancelled == data = <<>> \/ data = <<"n", "u", "l", "l", "\n">>
        IN  /\ (pc[t] = "done" /\ ok[t] /\ cancelled)
                 => /\ ret[t]
                    /\ submits[f[t]] = 0
                    /\ fate[f[t]] = "consumed"
                    /\ Removed(f[t])
            /\ pc[t] = "h_submit" => ~cancelled
            /\ (pc[t] = "done" /\ ~ok[t]) => ~ret[t]

\* C7 witness: a form was cancelled, and a second HandleForm with the same
\* identifier has returned false.
C7_Witness ==
    \E t \in Threads, c \in Calls :
        /\ fate[c] = "consumed" /\ submits[c] = 0
        /\ \A u \in Threads : ~(Found(u) /\ f[u] = c)
        /\ pc[t] = "done" /\ ~ok[t] /\ ~ret[t] /\ pk[t].FormID = assigned[c]

\* C8: when SubmitJSON fails HandleForm returns false, and the entry was
\* removed and the mutex released before SubmitJSON ran; the form is not
\* submitted a second time.
C8_FailedSubmitStillConsumes ==
    /\ \A t \in Threads :
          /\ (pc[t] = "done" /\ ok[t] /\ err[t])
               => ~ret[t] /\ submits[f[t]] = 1
          /\ Found(t) => fate[f[t]] = "consumed" /\ Removed(f[t])
          /\ (Found(t) /\ nHandle = 1 /\ \A u \in Threads \ {t} : pc[u] = "idle")
               => ~mu
    /\ \A c \in Calls : submits[c] <= 1

\* C8 witness: a HandleForm whose submit failed has returned false, and a
\* retry with the same identifier has taken the not-found path.
C8_Witness ==
    \E t, u \in Threads :
        /\ pc[t] = "done" /\ ok[t] /\ err[t] /\ ~ret[t]
        /\ pc[u] = "done" /\ ~ok[u] /\ pk[u].FormID = pk[t].FormID

\* C9: every key of the pending table was assigned by an earlier SendForm
\* whose entry has been neither consumed nor evicted since, and the form
\* stored under it is the form passed to that SendForm.
C9_PendingKeysAreLiveAssignments ==
    /\ \A k \in DOMAIN forms :
          /\ forms[k] \in 1..nSend
          /\ assigned[forms[k]] = k
          /\ fate[forms[k]] = "pending"
    /\ \A c \in Calls :
          fate[c] \in {"consumed", "evicted", "overwritten"} => Removed(c)

\* C9 witness: one entry was consumed, another evicted, and forms are pending.
C9_Witness ==
    /\ \E c1, c2 \in Calls : fate[c1] = "consumed" /\ fate[c2] = "evicted"
    /\ Len_forms(forms) > MaxForms

\* C10: Local() is 0 on a fresh session, the k-th SendForm through the
\* critical section is assigned k modulo the width of the counter, Local()
\* is that identifier when the critical section ends, and nothing but a
\* SendForm changes Local().
C10_KthSendGetsK ==
    /\ localFormId = nCS % Modulus
    /\ \A c \in Calls :
          assigned[c] # -1 => seq[c] >= 1 /\ assigned[c] = seq[c] % Modulus
    /\ \A t \in Threads :
          pc[t] \in {"s_store", "s_unlock"} => id[t] = localFormId

\* C10 witness: the counter has wrapped, and a HandleForm has run.
C10_Witness ==
    /\ \E c \in Calls : seq[c] = Modulus + 1 /\ assigned[c] = 1
    /\ \E c \in Calls : seq[c] = 1 /\ assigned[c] = 1
    /\ nHandle = 1

\* The document the specification gives for an element.
ExpectedElement(e, d) ==
    /\ d.text = e.Text
    /\ CASE e.kind = "Toggle" ->
             /\ DOMAIN d = {"type", "text", "default"}
             /\ d.type = "toggle" /\ d.default = e.Default
        [] e.kind = "Input" ->
             /\ DOMAIN d = {"type", "text", "default", "placeholder"}
             /\ d.type = "input" /\ d.default = e.Default
             /\ d.placeholder = e.Placeholder
        [] e.kind = "Label" ->
             /\ DOMAIN d = {"type", "text"}
             /\ d.type = "label"
        [] e.kind = "Slider" ->
             /\ DOMAIN d = {"type", "text", "min", "max", "step", "default"}
             /\ d.type = "slider" /\ d.min = e.Min /\ d.max = e.Max
             /\ d.step = e.StepSize /\ d.default = e.Default
        [] e.kind = "Dropdown" ->
             /\ DOMAIN d = {"type", "text", "default", "options"}
             /\ d.type = "dropdown" /\ d.default = e.DefaultIndex
             /\ d.options = e.Options
        [] e.kind = "StepSlider" ->
             /\ DOMAIN d = {"type", "text", "default", "steps"}
             /\ d.type = "step_slider" /\ d.default = e.DefaultIndex
             /\ d.steps = e.Options

IsUrl(image) ==
    \/ Len(image) >= 5 /\ SubSeq(image, 1, 5) = <<"h", "t", "t", "p", ":">>
    \/ Len(image) >= 6 /\ SubSeq(image, 1, 6) = <<"h", "t", "t", "p", "s", ":">>

\* C12: a button with no image reference is encoded without an image field;
\* any other button has an image field whose data is the reference and whose
\* type is "url" exactly when the reference starts with "http:" or "https:",
\* and "path" otherwise.
C12_ButtonImage ==
    (enc.pc = "done" /\ enc.f.kind = "Menu") =>
        \A i \in 1..Len(enc.f.Buttons) :
            LET b == enc.f.Buttons[i]
                v == enc.m.buttons[i]
            IN  IF b.Image = <<>>
                THEN DOMAIN v = {"text"}
                ELSE /\ DOMAIN v = {"text", "image"}
                     /\ DOMAIN v.image = {"type", "data"}
                     /\ v.image.data = b.Image
                     /\ v.image.type = IF IsUrl(b.Image) THEN "url" ELSE "path"

\* C12 witness: a menu of an https: button and a button whose reference only
\* contains "http:" has been encoded.
C12_Witness ==
    /\ enc.pc = "done" /\ enc.f.kind = "Menu" /\ Len(enc.f.Buttons) = 2
    /\ enc.f.Buttons[1].Image = <<"h", "t", "t", "p", "s", ":", "/", "a">>
    /\ enc.f.Buttons[2].Image = <<"/", "h", "t", "t", "p", ":">>
    /\ enc.m.buttons[1].image.type = "url"
    /\ enc.m.buttons[2].image.type = "path"

\* forms2 is forms1 without the entry under key k.
WithoutKey(forms1, forms2, k) ==
    /\ k \in DOMAIN forms1
    /\ DOMAIN forms2 = DOMAIN forms1 \ {k}
    /\ \A j \in DOMAIN forms2 : forms2[j] = forms1[j]

\* C13: the eviction step of a SendForm removes exactly one entry, and not
\* the form being sent, when the table holds more than 10 entries, and none
\* when it holds 10 or fewer; the store step then adds the form under the
\* call's id and removes no key; no other step of a SendForm touches the table.
C13_EvictsOneThenInserts ==
    [][\A t \in Threads :
        /\ (pc[t] = "s_evict" /\ pc'[t] = "s_add") =>
              IF Cardinality(DOMAIN forms) > 10
              THEN \E k \in DOMAIN forms :
                      /\ WithoutKey(forms, forms', k)
                      /\ forms[k] # f[t]
              ELSE forms' = forms
        /\ (pc[t] = "s_store" /\ pc'[t] = "s_unlock") =>
              /\ DOMAIN forms' = DOMAIN forms \cup {id[t]}
              /\ forms'[id[t]] = f[t]
              /\ \A j \in DOMAIN forms \ {id[t]} : forms'[j] = forms[j]
        /\ (pc[t] \in {"s_lock", "s_add", "s_load", "s_unlock", "s_write"}
              /\ pc'[t] # pc[t]) =>
              forms' = forms
      ]_vars

\* C13 witness: a SendForm that found 11 entries has evicted one of them and
\* inserted its own form.
C13_Witness ==
    \E t \in Threads :
        /\ pc[t] = "s_unlock"
        /\ Has(forms, id[t]) /\ forms[id[t]] = f[t]
        /\ Cardinality(DOMAIN forms) = 11
        /\ \E c \in Calls : fate[c] = "evicted" /\ seq[c] < seq[f[t]]

\* The packets written for the form of call c.
PacketsOf(c) == {p \in BagToSet(conn) : p.FormData = c}

\* Call c has been made and has returned.
Returned(c) ==
    /\ c <= nSend
    /\ \A t \in Threads :
          pc[t] \in InSend \cup {"s_lock", "s_write"} => f[t] # c

\* C14: a SendForm that has returned has written exactly one packet and a
\* SendForm still running none; the FormID of a packet is the id under which
\* its call stored the form; and a packet is written only by a call that has
\* stored its form and has left its critical section.
C14_OnePacketWithStoredIdAfterUnlock ==
    /\ [](\A c \in Calls :
            /\ \A p \in PacketsOf(c) :
                  /\ CopiesIn(p, conn) = 1
                  /\ p.FormID = assigned[c]
                  /\ fate[c] # "none"
            /\ Cardinality(PacketsOf(c)) = IF Returned(c) THEN 1 ELSE 0)
    /\ [][conn' # conn =>
            \E t \in Threads :
                /\ pc[t] = "s_write" /\ pc'[t] = "idle"
                /\ assigned[f[t]] = id[t]
                /\ conn' = conn (+) SetToBag({[FormID |-> id[t], FormData |-> f[t]]})
                /\ forms' = forms /\ mu' = mu
       ]_vars

\* C14 witness: two SendForm calls that were in their critical sections one
\* after the other have both written their packet.
C14_Witness ==
    /\ nSend = 2 /\ Returned(1) /\ Returned(2)
    /\ [FormID |-> 1, FormData |-> 2] \in BagToSet(conn)
    /\ [FormID |-> 2, FormData |-> 1] \in BagToSet(conn)

\* HandleForm on thread t has found a form and has not returned yet.
Holds(t, c) ==
    pc[t] \in {"h_delete", "h_unlock", "h_check", "h_submit"} /\ ok[t] /\ f[t] = c

\* C16: an id leaves the table only in the delete step of a HandleForm for
\* that id or in the eviction step of a SendForm; the submit of an evicted
\* form is never run and no HandleForm has it in hand; and a HandleForm that
\* did not find its id returns false.
C16_EvictedIsNeverSubmitted ==
    /\ [](\A c \in Calls :
            fate[c] = "evicted" =>
                /\ submits[c] = 0
                /\ \A t \in Threads : ~Holds(t, c))
    /\ [](\A t \in Threads : (pc[t] = "done" /\ ~ok[t]) => ~ret[t])
    /\ [][\A k \in DOMAIN forms \ DOMAIN forms' :
            \E t \in Threads :
                \/ /\ pc[t] = "h_delete" /\ pc'[t] = "h_unlock"
                   /\ pk[t].FormID = k
                \/ pc[t] = "s_evict" /\ pc'[t] = "s_add"
       ]_vars

\* C16 witness: the form of the first call was evicted while its id was
\* pending and a HandleForm for that id has returned false.
C16_Witness ==
    /\ fate[1] = "evicted" /\ assigned[1] = 1 /\ ~Has(forms, 1)
    /\ \E t \in Threads :
          /\ pc[t] = "done" /\ pk[t].FormID = 1
          /\ ~ok[t] /\ ~ret[t]
    /\ submits[1] = 0

\* Some thread is between a Lock and the Unlock that follows it in the code.
InCriticalSection == \E u \in Threads : pc[u] \in InSend \cup InHandle

C17_LockFreeIdsAreDistinctAndOwn ==
    \A p \in BagToSet(conn) :
        /\ CopiesIn(p, conn) = 1
        /\ p.FormID = assigned[p.FormData]
        /\ \A q \in BagToSet(conn) : q.FormID = p.FormID => q = p

\* C18: a SendForm whose Custom form holds an element of no known kind panics
\* in the encoder: the step into the panic and the step out of it change
\* neither the table nor the counter nor the mutex nor the packets written,
\* the mutex is locked only while a thread is inside a critical section
\* (unless a HandleForm has returned with it locked), and the calls that do
\* store a form get the ids 1, 2, ... in the order of their increments.
C18_PanicChangesNothing ==
    /\ [][\A t \in Threads :
            (pc'[t] # pc[t] /\ (pc[t] = "panic" \/ pc'[t] = "panic")) =>
                /\ UNCHANGED <<mu, forms, localFormId, remoteFormId, conn>>
                /\ UNCHANGED <<nSend, nCS, assigned, fate, submits>>
       ]_vars
    /\ [](~leaked => (mu <=> \E u \in Threads : pc[u] \in InSend \cup InHandle))
    /\ [](\A c \in Calls : assigned[c] # -1 => assigned[c] = NewUint32(seq[c]))
    /\ [](localFormId = NewUint32(nCS))

\* C18 witness: a SendForm has panicked while a form is pending, and a
\* SendForm on another thread is inside its critical section.
C18_Witness ==
    \E t \in Threads :
        /\ pc[t] = "panic"
        /\ Cardinality(DOMAIN forms) = 1
        /\ \E u \in Threads \ {t} : pc[u] = "s_store" /\ id[u] = 2
        /\ \E frm \in EncodeInputs :
              /\ frm.kind = "Custom" /\ EncodeForm(frm).panic
              /\ \E i \in 1..Len(frm.Elements) : frm.Elements[i].kind = "Unknown"

\* C19: the write of a SendForm changes neither the counter nor the table,
\* whether it fails or not; the counter is the number of increments made, so
\* each call advanced it by one and no failure took it back; an increment
\* produces an id that no packet written before it carries, failed or not; a
\* form whose write failed stays in the table until a response or an eviction
\* takes it; with the table the caller gets nothing back from SendForm,
\* without the table it gets the error of its write.
C19_WriteOutcomeChangesNothing ==
    /\ [][\A t \in Threads :
            /\ (pc[t] = "s_write" /\ pc'[t] = "idle") =>
                  /\ UNCHANGED <<mu, forms, localFormId, assigned, fate>>
                  /\ err' = err /\ ret' = ret
            /\ (pc[t] = "lf_write" /\ pc'[t] = "lf_return") =>
                  /\ UNCHANGED <<mu, forms, localFormId, assigned>>
                  /\ err'[t] = (f[t] \in failed')
            /\ (pc[t] = "lf_return" /\ pc'[t] = "lf_done") =>
                  ret'[t] = (f[t] \in failed)
            /\ (pc[t] \in {"s_add", "lf_add"} /\ pc'[t] # pc[t]) =>
                  /\ localFormId' = (localFormId + 1) % Modulus
                  /\ \A p \in BagToSet(conn) : p.FormID # localFormId'
       ]_vars
    /\ [](localFormId = nCS % Modulus)
    /\ [](\A c \in failed :
            /\ assigned[c] # -1
            /\ (load.variant = "mutex" /\ fate[c] = "pending") =>
                  (Has(forms, assigned[c]) /\ forms[assigned[c]] = c))

\* C19 witness: the write of the first SendForm failed, the second SendForm
\* got the next id, and a response for the first id still found its form and
\* submitted it.
C19_Witness ==
    /\ 1 \in failed /\ assigned[1] = 1
    /\ assigned[2] = 2 /\ seq[2] = 2
    /\ fate[1] = "consumed" /\ submits[1] = 1

====
